---------------------------- MODULE Spec2Model ----------------------------
(***************************************************************************)
(* Agent collaboration patterns: the Supervisor/Worker delegation engine   *)
(* (supervisor_pattern.py), the Swarm pheromone engine (swarm_pattern.py), *)
(* the Debate engine (debate_pattern.py), the Consensus engine             *)
(* (consensus_pattern.py) and the Pipeline orchestrator                    *)
(* (pipeline_pattern.py), each as a state machine.                         *)
(* The engines share no state; each has its own specification, in which    *)
(* the other engines stay as constructed.                                  *)
(*                                                                         *)
(* Python floats are modelled as exact rationals <<numerator, denominator>>*)
(* (denominator > 0, lowest terms) or as integers in a fixed unit; no      *)
(* property below turns on rounding.                                       *)
(***************************************************************************)
EXTENDS Integers, Sequences, FiniteSets, TLC

VARIABLES
    max_retries,      \* SupervisorAgent.max_retries
    workers,          \* SupervisorAgent.workers: dict name -> WorkerAgent, as the
                      \* sequence of its items in iteration (insertion) order
    completed_tasks,  \* WorkerAgent.completed_tasks, per worker object
    failed_tasks,     \* WorkerAgent.failed_tasks, per worker object
    tasks,            \* SupervisorAgent.tasks: dict task id n (of "task_<n>") -> Task
    calls,            \* the delegate_task coroutines: position and locals of each
    nregs,            \* number of register_worker calls made so far
    ncalls,           \* number of delegate_task calls the caller makes
    status,           \* what the last get_status call returned, and the
                      \* supervisor's registry and tasks when it was made
    agents,           \* SwarmIntelligence.agents: list of SwarmAgent
    environment_pheromones,  \* dict location -> Pheromone, as the sequence of
                      \* its values in iteration (insertion) order
    decay_rate,       \* SwarmIntelligence.decay_rate
    timestep,         \* SwarmIntelligence.timestep
    stats,            \* what the last run_iteration returned
    nops,             \* number of swarm operations called so far
    iterations,       \* number of run_iteration calls made so far
    num_rounds,       \* DebateOrchestrator.num_rounds
    scoring_strategy, \* DebateOrchestrator.scoring_strategy
    rounds,           \* DebateOrchestrator.rounds
    debate,           \* run_debate: its position, loop variable and last result
    strategy,         \* ConsensusEngine.strategy
    votes,            \* ConsensusEngine.votes
    consensus,        \* the outcome of the last calculate_consensus call, and
                      \* the length of the vote log when it was made
    stages,           \* PipelineOrchestrator.stages
    execution_history,\* PipelineOrchestrator.execution_history
    run               \* the last execute call: its arguments, what each stage
                      \* it invoked received and returned, and its return value

supVars ==
    <<max_retries, workers, completed_tasks, failed_tasks, tasks, calls, nregs, ncalls>>

swarmVars ==
    <<agents, environment_pheromones, decay_rate, timestep, stats, nops, iterations>>

debateVars == <<num_rounds, scoring_strategy, rounds, debate>>

consVars == <<strategy, votes, consensus>>

pipeVars == <<stages, execution_history, run>>

statusVars == <<status>>

vars == <<supVars, statusVars, swarmVars, debateVars, consVars, pipeVars>>

\* The engines share nothing: a step of one leaves the others alone.
\* (status is written by get_status alone.)
SupOnly == UNCHANGED <<statusVars, swarmVars, debateVars, consVars, pipeVars>>

SwarmOnly == UNCHANGED <<supVars, statusVars, debateVars, consVars, pipeVars>>

DebateOnly == UNCHANGED <<supVars, statusVars, swarmVars, consVars, pipeVars>>

ConsOnly == UNCHANGED <<supVars, statusVars, swarmVars, debateVars, pipeVars>>

PipeOnly == UNCHANGED <<supVars, statusVars, swarmVars, debateVars, consVars>>

(***************************************************************************)
(* Bounds of the model.                                                    *)
(***************************************************************************)
MaxCalls == 2          \* delegate_task calls made in one behaviour
MaxRetriesBound == 2   \* max_retries is drawn from 0..MaxRetriesBound
MaxRegs == 3           \* register_worker calls made in one behaviour
MaxCallsDeep == 1      \* delegate_task calls in the behaviours of RetrySpec
MaxRetriesDeep == 4    \* max_retries is drawn from 0..MaxRetriesDeep in RetrySpec
MaxAgents == 3         \* num_agents is drawn from 1..MaxAgents
MaxSwarmOps == 4       \* swarm operations called in one behaviour
MaxFreshAgents == 6    \* num_agents is drawn from 1..MaxFreshAgents in FreshSpec
MaxRounds == 8         \* num_rounds is drawn from 1..MaxRounds
MaxDebates == 2        \* run_debate calls made in one behaviour
MaxVotes == 3          \* add_vote calls made in one behaviour
MaxPipeOps == 4        \* add_stage and execute calls made in one behaviour

None == "None"

(***************************************************************************)
(* Rationals.                                                              *)
(***************************************************************************)
RECURSIVE GCD(_, _)
GCD(a, b) == IF b = 0 THEN a ELSE GCD(b, a % b)

Abs(a) == IF a < 0 THEN -a ELSE a

\* n/d in lowest terms (d > 0).
Norm(n, d) == LET g == GCD(Abs(n), d) IN <<n \div g, d \div g>>

RatLess(p, q) ==
    LET g == GCD(p[2], q[2]) IN p[1] * (q[2] \div g) < q[1] * (p[2] \div g)

RatLeq(p, q) == ~RatLess(q, p)

RatEq(p, q) == ~RatLess(p, q) /\ ~RatLess(q, p)

RatAdd(p, q) ==
    LET g == GCD(p[2], q[2])
    IN  Norm(p[1] * (q[2] \div g) + q[1] * (p[2] \div g), (p[2] \div g) * q[2])

RatSub(p, q) == RatAdd(p, <<-q[1], q[2]>>)

RatMul(p, q) == Norm(p[1] * q[1], p[2] * q[2])

\* Python's min(a, b) and max over two floats: the first argument wins a tie.
RatMin(a, b) == IF RatLess(b, a) THEN b ELSE a

InUnit(p) == RatLeq(<<0, 1>>, p) /\ RatLeq(p, <<1, 1>>)

Max(a, b) == IF a >= b THEN a ELSE b

RatMax(a, b) == IF RatLess(a, b) THEN b ELSE a

\* p / q for q > 0
RatDiv(p, q) == Norm(p[1] * q[2], p[2] * q[1])

(***************************************************************************)
(* Supervisor / Worker                                                     *)
(***************************************************************************)
\* The worker objects a caller may register.  w1 and w3 carry the same name, so
\* registering one after the other overwrites the registry entry "a".
WorkerObjs == {"w1", "w2", "w3"}

WName == [w \in WorkerObjs |-> IF w = "w2" THEN "b" ELSE "a"]

\* w3 is constructed without expertise (the default None).
WExpertise == [w \in WorkerObjs |-> IF w = "w3" THEN None ELSE "x"]

\* The expertise arguments of select_worker / delegate_task: absent, empty,
\* a tag some worker has, a tag no worker has.
ExpertiseArgs == {None, "", "x", "y"}

\* The values a worker's execute() returns.
Results == {"r1", "r2"}

CallIds == 1..Max(MaxCalls, MaxCallsDeep)

\* Python truthiness of an Optional[str]: None and "" are false.
Truthy(e) == e # None /\ e # ""

\* WorkerAgent.get_load: failed / max(1, completed + failed), as a rational.
get_load(w) == <<failed_tasks[w], Max(1, completed_tasks[w] + failed_tasks[w])>>

\* list(self.workers.values()), filtered by expertise when one is given.
Candidates(expertise) ==
    LET all == [i \in 1..Len(workers) |-> workers[i].w]
    IN  IF Truthy(expertise)
        THEN SelectSeq(all, LAMBDA w : WExpertise[w] = expertise)
        ELSE all

\* The step of Python's min(iterable, key=...): a later item replaces the best
\* so far only when its key is strictly smaller.
MinStepLast(best, w) == IF RatLeq(get_load(w), get_load(best)) THEN w ELSE best

MinStep(best, w) == IF RatLess(get_load(w), get_load(best)) THEN w ELSE best

RECURSIVE MinFrom(_, _, _)
MinFrom(cands, i, best) ==
    IF i > Len(cands) THEN best
    ELSE MinFrom(cands, i + 1, MinStep(best, cands[i]))

\* The fallback of a selection that ignores the filter when nothing matches.
select_workerAny(expertise) ==
    LET cands == IF Candidates(expertise) = << >> THEN Candidates(None)
                 ELSE Candidates(expertise)
    IN  IF cands = << >> THEN None ELSE MinFrom(cands, 2, cands[1])

\* SupervisorAgent.select_worker
select_worker(expertise) ==
    LET cands == Candidates(expertise)
    IN  IF cands = << >> THEN None ELSE MinFrom(cands, 2, cands[1])

\* A task id that counts only the finished tasks.
NewTaskIdFinished ==
    Cardinality({t \in DOMAIN tasks : tasks[t].status \in {"completed", "failed"}})

\* n of f"task_{len(self.tasks)}"
NewTaskId == Cardinality(DOMAIN tasks)

\* A backoff that grows linearly.
BackoffLinear(attempt) == 2 * attempt

\* The backoff sleep after the timed-out attempt `attempt`: 2 ** attempt
Backoff(attempt) == 2 ^ attempt

\* A completion that forgets the result.
CompleteTaskNoResult(t, result) ==
    [t EXCEPT !.status = "completed", !.completed_at = TRUE]

\* The success path's updates of the task.
CompleteTask(t, result) ==
    [t EXCEPT !.status = "completed", !.result = result, !.completed_at = TRUE]

\* A failure counter that misses the last attempt's timeout.
FailedAfterTimeoutNotLast(n, attempt) ==
    IF attempt < max_retries - 1 THEN n + 1 ELSE n

\* worker.failed_tasks += 1, on the timeout of attempt `attempt`
FailedAfterTimeout(n, attempt) == n + 1

\* dict assignment self.workers[name] = w: a new key goes last, an existing
\* key keeps its place and gets the new value.  `at` is the number of the
\* register_worker call that stored the value (history, not program state).
DictSet(d, name, w, at) ==
    IF \E i \in 1..Len(d) : d[i].name = name
    THEN [i \in 1..Len(d) |->
             IF d[i].name = name THEN [name |-> name, w |-> w, at |-> at] ELSE d[i]]
    ELSE Append(d, [name |-> name, w |-> w, at |-> at])

\* A coroutine that has not been called yet.
FreshCall ==
    [pc |-> "idle", worker |-> None, task |-> -1,
     attempt |-> 0, ret |-> None, trace |-> << >>]

\* The number of tasks of one status: sum(1 for t in tasks.values() if ...)
CountStatus(ts, st) == Cardinality({t \in DOMAIN ts : ts[t].status = st})

\* The dict get_status returns, as a function of the registry and the tasks.
StatusOf(ws, ts) ==
    [supervisor |-> "name",
     total_workers |-> Len(ws),
     total_tasks |-> Cardinality(DOMAIN ts),
     completed_tasks |-> CountStatus(ts, "completed"),
     failed_tasks |-> CountStatus(ts, "failed"),
     success_rate |->
         Norm(CountStatus(ts, "completed"), Max(1, Cardinality(DOMAIN ts)))]

\* The engine state the claims about get_status speak of: workers, their
\* counters, tasks.
SupState(ws, done, failed, ts) ==
    [workers |-> ws, completed_tasks |-> done, failed_tasks |-> failed, tasks |-> ts]

\* A get_status that drops the finished tasks from the registry.
TasksPurged(ts) ==
    [t \in {u \in DOMAIN ts : ts[u].status \notin {"completed", "failed"}} |-> ts[t]]

\* get_status assigns to no field: self.tasks after the call.
TasksAfterStatus(ts) == ts

\* SupervisorAgent(max_retries = r), with n delegate_task calls to come.
SupConstructed(r, n) ==
    /\ max_retries = r
    /\ workers = << >>
    /\ completed_tasks = [w \in WorkerObjs |-> 0]
    /\ failed_tasks = [w \in WorkerObjs |-> 0]
    /\ tasks = << >>
    /\ calls = [c \in CallIds |-> FreshCall]
    /\ nregs = 0
    /\ ncalls = n
    /\ status = [called |-> FALSE, value |-> StatusOf(<< >>, << >>),
                 state |-> SupState(<< >>, << >>, << >>, << >>)]

\* SupervisorAgent.register_worker.  Registering the object that already is
\* the entry of its name changes nothing and is left out.
RegisterWorker(w) ==
    /\ nregs < MaxRegs
    /\ \A i \in 1..Len(workers) : workers[i].w # w
    /\ nregs' = nregs + 1
    /\ workers' = DictSet(workers, WName[w], w, nregs + 1)
    /\ UNCHANGED <<max_retries, completed_tasks, failed_tasks, tasks, calls, ncalls>>
    /\ SupOnly

\* delegate_task, from its call to its first suspension point or its return:
\* select a worker; without one return None; otherwise record the task and
\* enter the retry loop (with max_retries <= 0 the loop body never runs).
\* Coroutine ids are labels only: they are handed out in order.
DelegateStart(c, expertise) ==
    /\ calls[c].pc = "idle"
    /\ c <= ncalls
    /\ \A b \in CallIds : b < c => calls[b].pc # "idle"
    /\ LET worker == select_worker(expertise)
           id == NewTaskId
           task == [task_id |-> id, assigned_to |-> WName[worker],
                    status |-> "pending", result |-> None,
                    completed_at |-> FALSE, owner |-> c]
       IN  IF worker = None
           THEN /\ calls' = [calls EXCEPT ![c].pc = "done", ![c].ret = None]
                /\ UNCHANGED tasks
           ELSE IF max_retries >= 1
           THEN /\ tasks' = [n \in DOMAIN tasks \cup {id} |->
                               IF n = id THEN [task EXCEPT !.status = "running"]
                               ELSE tasks[n]]
                /\ calls' = [calls EXCEPT ![c].pc = "waiting",
                                          ![c].worker = worker, ![c].task = id,
                                          ![c].attempt = 0,
                                          ![c].trace = <<<<"attempt", 0>>>>]
           ELSE /\ tasks' = [n \in DOMAIN tasks \cup {id} |->
                               IF n = id THEN task ELSE tasks[n]]
                /\ calls' = [calls EXCEPT ![c].pc = "done",
                                          ![c].worker = worker, ![c].task = id,
                                          ![c].ret = None]
    /\ UNCHANGED <<max_retries, workers, completed_tasks, failed_tasks, nregs, ncalls>>
    /\ SupOnly

\* worker.execute(task) finished before the timeout: the success path.
AttemptSuccess(c, result) ==
    /\ calls[c].pc = "waiting"
    /\ LET w == calls[c].worker
           id == calls[c].task
       IN  /\ tasks' = [tasks EXCEPT ![id] = CompleteTask(tasks[id], result)]
           /\ completed_tasks' = [completed_tasks EXCEPT ![w] = @ + 1]
           /\ calls' = [calls EXCEPT ![c].pc = "done", ![c].ret = result,
                           ![c].trace = Append(@, <<"success", result>>)]
    /\ UNCHANGED <<max_retries, workers, failed_tasks, nregs, ncalls>>
    /\ SupOnly

\* asyncio.wait_for raised TimeoutError: mark failed, count the failure, then
\* either start the backoff sleep or, after the last attempt, fall out of the
\* loop and return None.
AttemptTimeout(c) ==
    /\ calls[c].pc = "waiting"
    /\ LET w == calls[c].worker
           id == calls[c].task
           attempt == calls[c].attempt
       IN  /\ tasks' = [tasks EXCEPT ![id].status = "failed"]
           /\ failed_tasks' = [failed_tasks EXCEPT
                                  ![w] = FailedAfterTimeout(@, attempt)]
           /\ IF attempt < max_retries - 1
              THEN calls' = [calls EXCEPT ![c].pc = "sleeping",
                                ![c].trace = @ \o <<<<"timeout", attempt>>,
                                                    <<"sleep", Backoff(attempt)>>>>]
              ELSE calls' = [calls EXCEPT ![c].pc = "done", ![c].ret = None,
                                ![c].trace = Append(@, <<"timeout", attempt>>)]
    /\ UNCHANGED <<max_retries, workers, completed_tasks, nregs, ncalls>>
    /\ SupOnly

\* asyncio.sleep returned: the next iteration of the loop sets the status to
\* running again and waits for the worker.
BackoffDone(c) ==
    /\ calls[c].pc = "sleeping"
    /\ tasks' = [tasks EXCEPT ![calls[c].task].status = "running"]
    /\ calls' = [calls EXCEPT ![c].pc = "waiting", ![c].attempt = @ + 1,
                    ![c].trace = Append(@, <<"attempt", calls[c].attempt + 1>>)]
    /\ UNCHANGED <<max_retries, workers, completed_tasks, failed_tasks, nregs, ncalls>>
    /\ SupOnly

\* worker.execute raised something other than TimeoutError: no handler in
\* delegate_task, the exception leaves the coroutine.
AttemptFault(c) ==
    /\ calls[c].pc = "waiting"
    /\ calls' = [calls EXCEPT ![c].pc = "raised",
                    ![c].trace = Append(@, <<"fault", calls[c].attempt>>)]
    /\ UNCHANGED <<max_retries, workers, completed_tasks, failed_tasks, tasks, nregs, ncalls>>
    /\ SupOnly

\* SupervisorAgent.get_status
GetStatus ==
    /\ status' = [called |-> TRUE, value |-> StatusOf(workers, tasks),
                  state |-> SupState(workers, completed_tasks, failed_tasks, tasks)]
    /\ tasks' = TasksAfterStatus(tasks)
    /\ UNCHANGED <<max_retries, workers, completed_tasks, failed_tasks, calls, nregs, ncalls>>
    /\ UNCHANGED <<swarmVars, debateVars, consVars, pipeVars>>

SupNext ==
    \/ \E w \in WorkerObjs : RegisterWorker(w)
    \/ \E c \in CallIds, e \in ExpertiseArgs : DelegateStart(c, e)
    \/ \E c \in CallIds, r \in Results : AttemptSuccess(c, r)
    \/ \E c \in CallIds : AttemptTimeout(c)
    \/ \E c \in CallIds : BackoffDone(c)
    \/ \E c \in CallIds : AttemptFault(c)

(***************************************************************************)
(* Swarm                                                                   *)
(***************************************************************************)
Locations == {"origin", "A"}

\* The amounts a caller deposits: inside (0,1), above 1, negative.
DepositValues == {<<1, 2>>, <<5, 1>>, <<-1, 1>>}

DecayRates == {<<0, 1>>, <<1, 10>>, <<1, 2>>, <<1, 1>>}

\* SwarmAgent(agent_id): at "origin", nothing sensed yet.
NewAgent ==
    [position |-> "origin", local_pheromones |-> << >>,
     visited_locations |-> {"origin"}]

\* A swarm whose first agent is constructed somewhere else than the others.
SwarmConstructedApart(n, d) ==
    /\ agents = [i \in 1..n |->
                    IF i = 1 THEN [NewAgent EXCEPT !.position = "A",
                                                   !.visited_locations = {"A"}]
                    ELSE NewAgent]
    /\ environment_pheromones = << >>
    /\ decay_rate = d
    /\ timestep = 0
    /\ stats = None
    /\ nops = 0
    /\ iterations = 0

\* SwarmIntelligence(num_agents = n, decay_rate = d)
SwarmConstructed(n, d) ==
    /\ agents = [i \in 1..n |-> NewAgent]
    /\ environment_pheromones = << >>
    /\ decay_rate = d
    /\ timestep = 0
    /\ stats = None
    /\ nops = 0
    /\ iterations = 0

HasLoc(env, loc) == \E i \in 1..Len(env) : env[i].location = loc

\* SwarmIntelligence.deposit_pheromone, as a function of the pheromone dict.
Deposit(env, loc, value) ==
    IF ~HasLoc(env, loc)
    THEN Append(env, [location |-> loc, value |-> value, age |-> 0])
    ELSE [i \in 1..Len(env) |->
             IF env[i].location = loc
             THEN [env[i] EXCEPT !.value = RatMin(<<1, 1>>, RatAdd(@, value))]
             ELSE env[i]]

\* SwarmIntelligence.evaporate_pheromones, as a function of the pheromone dict.
Evaporate(env) ==
    [i \in 1..Len(env) |->
        [env[i] EXCEPT !.value = RatMul(@, RatSub(<<1, 1>>, decay_rate)),
                       !.age = @ + 1]]

\* The snapshot {loc: pheromone.value}, in the dict's order.
PheromoneMap(env) == [i \in 1..Len(env) |-> <<env[i].location, env[i].value>>]

\* Python's max(keys, key=...): the first key of maximum value.
RECURSIVE MaxFrom(_, _, _)
MaxFrom(map, i, best) ==
    IF i > Len(map) THEN best
    ELSE MaxFrom(map, i + 1, IF RatLess(map[best][2], map[i][2]) THEN i ELSE best)

\* SwarmAgent.decide_next_location
decide_next_location(position, local) ==
    IF local = << >> THEN position ELSE local[MaxFrom(local, 2, 1)][1]

\* A loop in which each agent senses the pheromone dict as the agents before it
\* have left it.
RECURSIVE UpdateFromLive(_, _, _, _)
UpdateFromLive(ags, env, map, k) ==
    IF k > Len(ags) THEN [agents |-> ags, env |-> env]
    ELSE LET live == [i \in 1..Len(env) |-> <<env[i].location, env[i].value>>]
             next == IF live = << >> THEN ags[k].position
                     ELSE live[MaxFrom(live, 2, 1)][1]
             moved == [position |-> next, local_pheromones |-> live,
                       visited_locations |-> ags[k].visited_locations \cup {next}]
             dep == IF \E i \in 1..Len(env) : env[i].location = next
                    THEN [i \in 1..Len(env) |->
                             IF env[i].location = next
                             THEN [env[i] EXCEPT
                                      !.value = RatMin(<<1, 1>>, RatAdd(@, <<1, 10>>))]
                             ELSE env[i]]
                    ELSE Append(env, [location |-> next, value |-> <<1, 10>>, age |-> 0])
         IN  UpdateFromLive([ags EXCEPT ![k] = moved], dep, map, k + 1)

\* The loop of update_agent_positions from agent k on: sense the snapshot,
\* decide, move, deposit 0.1 at the new location.
RECURSIVE UpdateFrom(_, _, _, _)
UpdateFrom(ags, env, map, k) ==
    IF k > Len(ags) THEN [agents |-> ags, env |-> env]
    ELSE LET next == decide_next_location(ags[k].position, map)
             moved == [position |-> next, local_pheromones |-> map,
                       visited_locations |-> ags[k].visited_locations \cup {next}]
         IN  UpdateFrom([ags EXCEPT ![k] = moved], Deposit(env, next, <<1, 10>>),
                        map, k + 1)

RECURSIVE SumValues(_, _)
SumValues(env, i) ==
    IF i > Len(env) THEN <<0, 1>> ELSE RatAdd(env[i].value, SumValues(env, i + 1))

\* A ratio that is the share of distinct locations itself.
ConvergenceShare(unique_positions, num_agents) == Norm(unique_positions, num_agents)

\* convergence_ratio = 1.0 - (unique_positions / len(self.agents))
ConvergenceRatio(unique_positions, num_agents) ==
    RatSub(<<1, 1>>, Norm(unique_positions, num_agents))

\* SwarmAgent.move, called on agent i of the swarm by the swarm's user.
MoveAgent(i, new_position) ==
    /\ nops < MaxSwarmOps
    /\ nops' = nops + 1
    /\ agents' = [agents EXCEPT ![i] =
                     [@ EXCEPT !.position = new_position,
                               !.visited_locations = @ \cup {new_position}]]
    /\ UNCHANGED <<environment_pheromones, decay_rate, timestep, stats, iterations>>
    /\ SwarmOnly

\* deposit_pheromone called by the swarm's user.
DepositPheromone(loc, value) ==
    /\ nops < MaxSwarmOps
    /\ nops' = nops + 1
    /\ environment_pheromones' = Deposit(environment_pheromones, loc, value)
    /\ UNCHANGED <<agents, decay_rate, timestep, stats, iterations>>
    /\ SwarmOnly

\* evaporate_pheromones called by the swarm's user.
EvaporatePheromones ==
    /\ nops < MaxSwarmOps
    /\ nops' = nops + 1
    /\ environment_pheromones' = Evaporate(environment_pheromones)
    /\ UNCHANGED <<agents, decay_rate, timestep, stats, iterations>>
    /\ SwarmOnly

\* SwarmIntelligence.run_iteration
RunIteration ==
    /\ nops < MaxSwarmOps
    /\ nops' = nops + 1
    /\ LET u == UpdateFrom(agents, environment_pheromones,
                           PheromoneMap(environment_pheromones), 1)
           env == Evaporate(u.env)
           unique_positions ==
               Cardinality({u.agents[i].position : i \in 1..Len(u.agents)})
       IN  /\ agents' = u.agents
           /\ environment_pheromones' = env
           /\ timestep' = timestep + 1
           /\ stats' = [timestep |-> timestep + 1,
                        unique_locations |-> unique_positions,
                        convergence_ratio |->
                            ConvergenceRatio(unique_positions, Len(u.agents)),
                        avg_pheromone |->
                            RatMul(SumValues(env, 1), <<1, Max(1, Len(env))>>)]
    /\ iterations' = iterations + 1
    /\ UNCHANGED decay_rate
    /\ SwarmOnly

SwarmNext ==
    \/ \E loc \in Locations, v \in DepositValues : DepositPheromone(loc, v)
    \/ EvaporatePheromones
    \/ RunIteration
    \/ \E i \in 1..Len(agents), loc \in Locations : MoveAgent(i, loc)

(***************************************************************************)
(* Debate                                                                  *)
(***************************************************************************)
Strategies == {"entropy_reduction", "agreement_measure", "unknown"}

\* DebateOrchestrator(num_rounds = R, scoring_strategy = s)
DebateConstructed(R, s) ==
    /\ num_rounds = R
    /\ scoring_strategy = s
    /\ rounds = << >>
    /\ debate = [pc |-> "idle", round_num |-> 0, result |-> None, ncalls |-> 0]

\* confidence_score = 0.8 + (round_num * 0.05)
ProposerConfidence(round_num) == RatAdd(<<4, 5>>, Norm(round_num * 5, 100))

\* confidence_score = 0.7 + (round_num * 0.04)
CriticConfidence(round_num) == RatAdd(<<7, 10>>, Norm(round_num * 4, 100))

\* DebateOrchestrator._calculate_consensus
calculate_consensus(proposer, critic) ==
    IF scoring_strategy = "entropy_reduction" THEN RatMin(proposer, critic)
    ELSE IF scoring_strategy = "agreement_measure"
    THEN RatMul(RatAdd(proposer, critic), <<1, 2>>)
    ELSE <<1, 2>>

RECURSIVE SumScores(_, _)
SumScores(rs, i) ==
    IF i > Len(rs) THEN <<0, 1>>
    ELSE RatAdd(rs[i].consensus_score, SumScores(rs, i + 1))

\* DebateOrchestrator._generate_consensus (rounds is not empty)
generate_consensus(rs) ==
    LET avg_consensus == RatMul(SumScores(rs, 1), <<1, Len(rs)>>)
        final_round == rs[Len(rs)]
    IN  [topic |-> "Debate topic",
         total_rounds |-> Len(rs),
         avg_consensus_score |-> avg_consensus,
         proposer_final_confidence |-> final_round.proposer_confidence,
         critic_final_confidence |-> final_round.critic_confidence,
         consensus_reached |-> RatLess(<<3, 4>>, avg_consensus),
         rounds |-> [i \in 1..Len(rs) |->
                        [round |-> rs[i].round_number,
                         consensus |-> rs[i].consensus_score]]]

\* A run_debate that keeps the rounds of the call before.
KeepRounds == rounds

\* self.rounds = [] at the start of run_debate
ResetRounds == << >>

\* run_debate is called: self.rounds = [] and the loop starts at round 1.
RunDebateBegin ==
    /\ debate.pc = "idle"
    /\ debate.ncalls < MaxDebates
    /\ rounds' = ResetRounds
    /\ debate' = [debate EXCEPT !.pc = "loop", !.round_num = 1, !.ncalls = @ + 1]
    /\ UNCHANGED <<num_rounds, scoring_strategy>>
    /\ DebateOnly

\* One iteration of the loop over range(1, num_rounds + 1).
DebateRoundStep ==
    /\ debate.pc = "loop"
    /\ debate.round_num <= num_rounds
    /\ LET proposer == ProposerConfidence(debate.round_num)
           critic == CriticConfidence(debate.round_num)
       IN  rounds' = Append(rounds,
                [round_number |-> debate.round_num,
                 proposer_confidence |-> proposer,
                 critic_confidence |-> critic,
                 consensus_score |-> calculate_consensus(proposer, critic)])
    /\ debate' = [debate EXCEPT !.round_num = @ + 1]
    /\ UNCHANGED <<num_rounds, scoring_strategy>>
    /\ DebateOnly

\* The loop is over: return self._generate_consensus().
RunDebateReturn ==
    /\ debate.pc = "loop"
    /\ debate.round_num > num_rounds
    /\ debate' = [debate EXCEPT !.pc = "idle", !.result = generate_consensus(rounds)]
    /\ UNCHANGED <<num_rounds, scoring_strategy, rounds>>
    /\ DebateOnly

\* Some run_debate call has returned (debate.result holds its result).
DebateReturned == debate.pc = "idle" /\ debate.ncalls > 0

DebateNext ==
    \/ RunDebateBegin
    \/ DebateRoundStep
    \/ RunDebateReturn

(***************************************************************************)
(* Consensus                                                               *)
(***************************************************************************)
\* The values of VotingStrategy, and one value outside the enumeration.
VotingStrategies == {"simple_majority", "weighted_confidence", "unanimous", "other"}

VoterNames == {"agent1"}

Options == {"A", "B"}

\* The confidences a caller passes to add_vote: inside, on the edges of and
\* outside [0, 1].
Confidences == {<<-1, 2>>, <<0, 1>>, <<3, 5>>, <<4, 5>>, <<9, 10>>, <<2, 1>>}

\* What a call did: it returned a value or it raised an exception.
Returned(v) == [outcome |-> "returned", value |-> v]

Raised(e) == [outcome |-> "raised", value |-> e]

\* ConsensusEngine(strategy = s)
ConsConstructed(s) ==
    /\ strategy = s
    /\ votes = << >>
    /\ consensus = [outcome |-> "none", value |-> None, nvotes |-> 0]

\* confidence = max(0.0, min(1.0, confidence))
Clamp(confidence) == RatMax(<<0, 1>>, RatMin(<<1, 1>>, confidence))

\* A dict option -> number is the sequence of its items <<option, number>> in
\* insertion order.
HasKey(map, key) == \E i \in 1..Len(map) : map[i][1] = key

\* map[key] = map.get(key, 0) + x
AddTo(map, key, x) ==
    IF HasKey(map, key)
    THEN [i \in 1..Len(map) |->
             IF map[i][1] = key THEN <<key, RatAdd(map[i][2], x)>> ELSE map[i]]
    ELSE Append(map, <<key, x>>)

\* The loop of _weighted_consensus over the votes from vote i on: option_scores.
RECURSIVE ScoresFrom(_, _, _)
ScoresFrom(vs, i, map) ==
    IF i > Len(vs) THEN map
    ELSE ScoresFrom(vs, i + 1, AddTo(map, vs[i].option, vs[i].confidence))

\* The same loop: option_counts.
RECURSIVE CountsFrom(_, _, _)
CountsFrom(vs, i, map) ==
    IF i > Len(vs) THEN map
    ELSE CountsFrom(vs, i + 1, AddTo(map, vs[i].option, <<1, 1>>))

\* sum(map.values())
RECURSIVE SumMap(_, _)
SumMap(map, i) ==
    IF i > Len(map) THEN <<0, 1>> ELSE RatAdd(map[i][2], SumMap(map, i + 1))

\* ConsensusEngine._weighted_consensus; a float division by 0.0 raises.
weighted_consensus(vs) ==
    LET option_scores == ScoresFrom(vs, 1, << >>)
        option_counts == CountsFrom(vs, 1, << >>)
    IN  IF option_scores = << >> THEN Returned([consensus |-> None])
        ELSE LET best_option == MaxFrom(option_scores, 2, 1)
                 total_confidence == SumMap(option_scores, 1)
             IN  IF total_confidence[1] = 0 THEN Raised("ZeroDivisionError")
                 ELSE Returned(
                     [consensus |-> option_scores[best_option][1],
                      confidence |->
                          RatDiv(option_scores[best_option][2], total_confidence),
                      vote_breakdown |->
                          [i \in 1..Len(option_scores) |->
                              <<option_scores[i][1],
                                RatDiv(option_scores[i][2], option_counts[i][2])>>]])

\* ConsensusEngine._majority_consensus
majority_consensus(vs) ==
    LET option_counts == CountsFrom(vs, 1, << >>)
    IN  IF option_counts = << >> THEN Returned([consensus |-> None])
        ELSE LET best_option == MaxFrom(option_counts, 2, 1)
             IN  Returned([consensus |-> option_counts[best_option][1],
                           votes_for |-> option_counts[best_option][2][1],
                           total_votes |-> Len(vs)])

\* A unanimity check that is satisfied by one matching vote.
unanimous_consensusAny(vs) ==
    IF vs = << >> THEN Returned([consensus |-> None, unanimous |-> FALSE])
    ELSE LET first_option == vs[1].option
             unanimous == \E i \in 1..Len(vs) : vs[i].option = first_option
         IN  Returned([consensus |-> IF unanimous THEN first_option ELSE None,
                       unanimous |-> unanimous])

\* ConsensusEngine._unanimous_consensus
unanimous_consensus(vs) ==
    IF vs = << >> THEN Returned([consensus |-> None, unanimous |-> FALSE])
    ELSE LET first_option == vs[1].option
             unanimous == \A i \in 1..Len(vs) : vs[i].option = first_option
         IN  Returned([consensus |-> IF unanimous THEN first_option ELSE None,
                       unanimous |-> unanimous])

\* ConsensusEngine.calculate_consensus, as a function of the log and the strategy.
ConsensusOf(vs, s) ==
    IF vs = << >> THEN Returned([consensus |-> None, confidence |-> <<0, 1>>])
    ELSE IF s = "weighted_confidence" THEN weighted_consensus(vs)
    ELSE IF s = "simple_majority" THEN majority_consensus(vs)
    ELSE IF s = "unanimous" THEN unanimous_consensus(vs)
    ELSE Returned([consensus |-> None])

\* ConsensusEngine.add_vote
AddVote(agent_name, option, confidence) ==
    /\ Len(votes) < MaxVotes
    /\ votes' = Append(votes, [agent_name |-> agent_name, option |-> option,
                               confidence |-> Clamp(confidence), reasoning |-> ""])
    /\ UNCHANGED <<strategy, consensus>>
    /\ ConsOnly

\* ConsensusEngine.calculate_consensus: it returns to the caller or raises;
\* the engine's fields are left as they are.
CalculateConsensus ==
    /\ LET r == ConsensusOf(votes, strategy)
       IN  consensus' = [outcome |-> r.outcome, value |-> r.value,
                         nvotes |-> Len(votes)]
    /\ UNCHANGED <<strategy, votes>>
    /\ ConsOnly

ConsNext ==
    \/ \E a \in VoterNames, o \in Options, c \in Confidences : AddVote(a, o, c)
    \/ CalculateConsensus

(***************************************************************************)
(* Pipeline                                                                *)
(***************************************************************************)
\* A data dict is modelled by the set of its keys.
Fields == {"a", "b"}

\* The dicts callers and stages produce: without any field, with a, with both.
DataValues == {{}, {"a"}, Fields}

\* An Optional[Dict]: None, or a dict.
NoneData == [none |-> TRUE, data |-> {}]

SomeData(d) == [none |-> FALSE, data |-> d]

\* What a stage's execute may return: the failure signal None, or a dict.
StageResults == {NoneData} \cup {SomeData(d) : d \in DataValues}

\* The stage objects a caller may add.  s1 and s3 carry the same name.
StageObjs == {"s1", "s2", "s3"}

StageName == [o \in StageObjs |-> IF o = "s2" THEN "clean" ELSE "load"]

\* input_schema.required_fields
InputRequired ==
    [o \in StageObjs |-> IF o = "s1" THEN {} ELSE IF o = "s2" THEN {"a"} ELSE {"b"}]

\* output_schema.required_fields
OutputRequired ==
    [o \in StageObjs |-> IF o = "s1" THEN {"a"} ELSE IF o = "s2" THEN {"b"} ELSE {}]

\* The skip_stages argument: a list of names; None stands for the empty list.
SkipArgs == {{}, {"load"}, {"clean"}}

\* PipelineOrchestrator(name)
PipeConstructed ==
    /\ stages = << >>
    /\ execution_history = << >>
    /\ run = [n |-> 0, initial_data |-> {}, skip_stages |-> {}, outs |-> << >>,
              seen |-> << >>, ret |-> NoneData]

\* A validate that accepts every dict.
validateAnything(required_fields, data) == TRUE

\* SchemaValidation.validate
validate(required_fields, data) == \A field \in required_fields : field \in data

\* An abort that throws the recorded history away.
AbortClearing(hist, seen) == [ret |-> NoneData, history |-> << >>, seen |-> seen]

\* return None: the history recorded so far stays.
Abort(hist, seen) == [ret |-> NoneData, history |-> hist, seen |-> seen]

\* An execute that does not hand a stage's result on to the next stage.
NextDataKept(current_data, result) == current_data

\* current_data = result
NextData(current_data, result) == result

\* An execute that signals an absent result when its loop has no stage to run.
FinalReturnAbsent(current_data, executed) ==
    IF executed = 0 THEN NoneData ELSE SomeData(current_data)

\* return current_data
FinalReturn(current_data, executed) == SomeData(current_data)

\* The loop of execute from stage i on.  outs[i] is what stage i returns if it
\* is invoked; hist is the execution history; seen logs the invocations of
\* stage.execute with the data each received.
RECURSIVE ExecuteFrom(_, _, _, _, _, _, _)
ExecuteFrom(initial_data, skip_stages, outs, i, current_data, hist, seen) ==
    IF i > Len(stages)
    THEN [ret |-> FinalReturn(current_data, Len(seen)), history |-> hist, seen |-> seen]
    ELSE LET stage == stages[i] IN
         IF StageName[stage] \in skip_stages
         THEN ExecuteFrom(initial_data, skip_stages, outs, i + 1, current_data, hist, seen)
         ELSE IF ~validate(InputRequired[stage], current_data)
         THEN Abort(hist, seen)
         ELSE LET result == outs[i]
                  called == Append(seen, [stage |-> i, data |-> current_data])
              IN  IF result.none
                  THEN Abort(hist, called)
                  ELSE IF ~validate(OutputRequired[stage], result.data)
                  THEN Abort(hist, called)
                  ELSE ExecuteFrom(initial_data, skip_stages, outs, i + 1,
                                   NextData(current_data, result.data),
                                   Append(hist, [stage |-> StageName[stage],
                                                 data |-> result.data]),
                                   called)

\* PipelineOrchestrator.add_stage
AddStage(stage) ==
    /\ Len(stages) + run.n < MaxPipeOps
    /\ stages' = Append(stages, stage)
    /\ UNCHANGED <<execution_history, run>>
    /\ PipeOnly

\* PipelineOrchestrator.execute.  A stage that is not invoked returns nothing:
\* its entry of outs is fixed to None.
Execute(initial_data, skip_stages, outs) ==
    /\ Len(stages) + run.n < MaxPipeOps
    /\ LET r == ExecuteFrom(initial_data, skip_stages, outs, 1, initial_data,
                            execution_history, << >>)
       IN  /\ \A i \in 1..Len(stages) :
                  (\A k \in 1..Len(r.seen) : r.seen[k].stage # i) => outs[i] = NoneData
           /\ execution_history' = r.history
           /\ run' = [n |-> run.n + 1, initial_data |-> initial_data,
                      skip_stages |-> skip_stages, outs |-> outs,
                      seen |-> r.seen, ret |-> r.ret]
    /\ UNCHANGED stages
    /\ PipeOnly

PipeNext ==
    \/ \E stage \in StageObjs : AddStage(stage)
    \/ \E initial_data \in DataValues, skip_stages \in SkipArgs,
          outs \in [1..Len(stages) -> StageResults] :
           Execute(initial_data, skip_stages, outs)

(***************************************************************************)
(* Specifications: one engine runs, the others stay as constructed with    *)
(* their default arguments.                                                *)
(***************************************************************************)
SupInit ==
    /\ \E r \in 0..MaxRetriesBound : SupConstructed(r, MaxCalls)
    /\ SwarmConstructed(10, <<1, 10>>)
    /\ DebateConstructed(3, "entropy_reduction")
    /\ ConsConstructed("weighted_confidence")
    /\ PipeConstructed

\* The same supervisor driven by fewer callers and with more retries.
RetryInit ==
    /\ \E r \in 0..MaxRetriesDeep : SupConstructed(r, MaxCallsDeep)
    /\ SwarmConstructed(10, <<1, 10>>)
    /\ DebateConstructed(3, "entropy_reduction")
    /\ ConsConstructed("weighted_confidence")
    /\ PipeConstructed

SwarmInit ==
    /\ SupConstructed(3, 0)
    /\ \E n \in 1..MaxAgents, d \in DecayRates : SwarmConstructed(n, d)
    /\ DebateConstructed(3, "entropy_reduction")
    /\ ConsConstructed("weighted_confidence")
    /\ PipeConstructed

DebateInit ==
    /\ SupConstructed(3, 0)
    /\ SwarmConstructed(10, <<1, 10>>)
    /\ \E R \in 1..MaxRounds, s \in Strategies : DebateConstructed(R, s)
    /\ ConsConstructed("weighted_confidence")
    /\ PipeConstructed

ConsInit ==
    /\ SupConstructed(3, 0)
    /\ SwarmConstructed(10, <<1, 10>>)
    /\ DebateConstructed(3, "entropy_reduction")
    /\ \E s \in VotingStrategies : ConsConstructed(s)
    /\ PipeConstructed

PipeInit ==
    /\ SupConstructed(3, 0)
    /\ SwarmConstructed(10, <<1, 10>>)
    /\ DebateConstructed(3, "entropy_reduction")
    /\ ConsConstructed("weighted_confidence")
    /\ PipeConstructed

\* A caller that exercises the read-only calls: with ncalls > 0 it drives the
\* supervisor and calls get_status at any point, with ncalls = 0 it drives the
\* consensus engine.
ReadInit ==
    /\ \/ /\ \E r \in 0..MaxRetriesBound : SupConstructed(r, MaxCallsDeep)
          /\ ConsConstructed("weighted_confidence")
       \/ /\ SupConstructed(3, 0)
          /\ \E s \in VotingStrategies : ConsConstructed(s)
    /\ SwarmConstructed(10, <<1, 10>>)
    /\ DebateConstructed(3, "entropy_reduction")
    /\ PipeConstructed

ReadNext ==
    \/ ncalls > 0 /\ SupNext
    \/ ncalls > 0 /\ GetStatus
    \/ ncalls = 0 /\ ConsNext

\* A freshly constructed swarm that is driven by run_iteration alone.
FreshInit ==
    /\ SupConstructed(3, 0)
    /\ \E n \in 1..MaxFreshAgents, d \in DecayRates : SwarmConstructed(n, d)
    /\ DebateConstructed(3, "entropy_reduction")
    /\ ConsConstructed("weighted_confidence")
    /\ PipeConstructed

FreshNext == RunIteration

SupSpec == SupInit /\ [][SupNext]_vars

FreshSpec == FreshInit /\ [][FreshNext]_vars

ReadSpec == ReadInit /\ [][ReadNext]_vars

RetrySpec == RetryInit /\ [][SupNext]_vars

SwarmSpec == SwarmInit /\ [][SwarmNext]_vars

DebateSpec == DebateInit /\ [][DebateNext]_vars

ConsSpec == ConsInit /\ [][ConsNext]_vars

PipeSpec == PipeInit /\ [][PipeNext]_vars

(***************************************************************************)
(* Supervisor: properties                                                  *)
(***************************************************************************)
Trace(c) == calls[c].trace

\* The number of events of one kind one call has logged.
CountEv(c, kind) == Cardinality({i \in 1..Len(Trace(c)) : Trace(c)[i][1] = kind})

\* The number of events of one kind logged by the calls delegated to worker w.
RECURSIVE SumEv(_, _, _)
SumEv(S, w, kind) ==
    IF S = {} THEN 0
    ELSE LET c == CHOOSE x \in S : TRUE
         IN  (IF calls[c].worker = w THEN CountEv(c, kind) ELSE 0)
             + SumEv(S \ {c}, w, kind)

\* The calls that found a worker.
FoundCalls == {c \in CallIds : calls[c].pc # "idle" /\ calls[c].worker # None}

\* The registry positions of the workers a request is for: those with the tag,
\* or all of them when no tag (None or an empty one) is given.
Eligible(e) ==
    {i \in 1..Len(workers) : Truthy(e) => WExpertise[workers[i].w] = e}

PosOf(w) == CHOOSE i \in 1..Len(workers) : workers[i].w = w

\* C1: a task's status only moves forward along pending -> running ->
\* {completed, failed}; it never goes from completed or failed back to running
\* or pending (nor from running back to pending).
C1_StatusMonotonic ==
    [][\A t \in DOMAIN tasks :
          /\ tasks[t].status \in {"completed", "failed"}
                => tasks'[t].status \notin {"running", "pending"}
          /\ tasks[t].status = "running" => tasks'[t].status # "pending"]_vars

\* C2: at most one delegation (a delegate_task call suspended in the wait for
\* its worker or in the backoff sleep), and at most one worker execution
\* attempt, is in flight at any time.
C2_OneInFlight ==
    /\ Cardinality({c \in CallIds : calls[c].pc \in {"waiting", "sleeping"}}) <= 1
    /\ Cardinality({c \in CallIds : calls[c].pc = "waiting"}) <= 1

\* C3: a call makes at most max_retries attempts and none after a successful
\* one; the timeout of attempt k, when k is not the last attempt, is followed
\* at once by a sleep of exactly 2^k and then by attempt k+1; nothing follows
\* the timeout of the last attempt, and every sleep follows a timeout.
C3_RetriesAndBackoff ==
    \A c \in CallIds :
        LET L == Trace(c)
        IN  /\ CountEv(c, "attempt") <= max_retries
            /\ \A i \in 1..Len(L) :
                  /\ L[i][1] = "attempt" => L[i][2] = CountEv(c, "attempt")
                        - Cardinality({j \in i..Len(L) : L[j][1] = "attempt"})
                  /\ L[i][1] = "success" => i = Len(L)
                  /\ (L[i][1] = "timeout" /\ L[i][2] < max_retries - 1)
                        => /\ i < Len(L)
                           /\ L[i + 1] = <<"sleep", 2 ^ L[i][2]>>
                           /\ i + 1 < Len(L) => L[i + 2] = <<"attempt", L[i][2] + 1>>
                  /\ (L[i][1] = "timeout" /\ L[i][2] >= max_retries - 1)
                        => i = Len(L) /\ calls[c].pc = "done"
                  /\ L[i][1] = "sleep" => i > 1 /\ L[i - 1][1] = "timeout"
                  /\ L[i][1] = "timeout" => i > 1 /\ L[i - 1] = <<"attempt", L[i][2]>>

\* C3 witness: a call has slept 1, 2 and 4 time units after its first three
\* timeouts and started a fourth attempt.
C3_Witness ==
    \E c \in CallIds :
        /\ CountEv(c, "attempt") = 4
        /\ \E i \in 1..Len(Trace(c)) : Trace(c)[i] = <<"sleep", 4>>

\* C4: a returned delegate_task call that found a worker (max_retries >= 1)
\* returned the worker's result exactly when some attempt finished before its
\* timeout, and then the task is completed with that result recorded;
\* otherwise every attempt timed out, it returned None and the task is failed.
C4_ResultAndFinalStatus ==
    \A c \in FoundCalls :
        (calls[c].pc = "done" /\ max_retries >= 1) =>
            LET L == Trace(c)
                t == tasks[calls[c].task]
            IN  IF \E i \in 1..Len(L) : L[i][1] = "success"
                THEN /\ calls[c].ret = L[Len(L)][2]
                     /\ calls[c].ret \in Results
                     /\ t.status = "completed"
                     /\ t.result = calls[c].ret
                ELSE /\ calls[c].ret = None
                     /\ CountEv(c, "timeout") = max_retries
                     /\ t.status = "failed"
                     /\ t.result = None

\* C4 witness: one call returned a result after a timed-out attempt, another
\* returned None after all its attempts timed out.
C4_Witness ==
    \E c, d \in FoundCalls :
        /\ calls[c].pc = "done" /\ calls[c].ret \in Results
        /\ CountEv(c, "timeout") >= 1
        /\ calls[d].pc = "done" /\ calls[d].ret = None
        /\ CountEv(d, "timeout") = max_retries /\ max_retries >= 2

C5_Counters ==
    \A w \in WorkerObjs :
        /\ failed_tasks[w] = SumEv(CallIds, w, "timeout")
        /\ completed_tasks[w] = SumEv(CallIds, w, "success")
        /\ RatLeq(<<0, 1>>, get_load(w)) /\ RatLeq(get_load(w), <<1, 1>>)
        /\ get_load(w) = <<failed_tasks[w],
                           IF completed_tasks[w] + failed_tasks[w] = 0 THEN 1
                           ELSE completed_tasks[w] + failed_tasks[w]>>
        /\ (completed_tasks[w] = 0 /\ failed_tasks[w] = 0) => RatEq(get_load(w), <<0, 1>>)
        /\ (completed_tasks[w] = 1 /\ failed_tasks[w] = 1) => RatEq(get_load(w), <<1, 2>>)

\* C5: each worker's failed_tasks is the number of timed-out attempts made on
\* it and its completed_tasks the number of successful ones; neither counter
\* ever decreases; get_load() = failed / max(1, completed + failed) lies in
\* [0,1], is 0 without attempts and 1/2 after one timeout and one success.
C5_CountersAndLoad ==
    /\ []C5_Counters
    /\ [][\A w \in WorkerObjs : /\ failed_tasks'[w] >= failed_tasks[w]
                                /\ completed_tasks'[w] >= completed_tasks[w]]_vars

\* C5 witness: a call timed out once on a worker and then succeeded on it, and
\* the worker's load is 1/2.
C5_Witness ==
    \E c \in FoundCalls :
        /\ CountEv(c, "timeout") = 1 /\ CountEv(c, "success") = 1
        /\ failed_tasks[calls[c].worker] = 1
        /\ completed_tasks[calls[c].worker] = 1
        /\ RatEq(get_load(calls[c].worker), <<1, 2>>)

\* C6: when no eligible worker exists (empty registry, or no registered worker
\* has the requested tag), select_worker returns None, and a delegate_task
\* call returns None at once, leaving the task registry and every worker's
\* counters unchanged.
C6_NoWorker ==
    /\ [](\A e \in ExpertiseArgs : Eligible(e) = {} => select_worker(e) = None)
    /\ [][\A c \in CallIds, e \in ExpertiseArgs :
            (Eligible(e) = {} /\ DelegateStart(c, e)) =>
                /\ calls'[c].pc = "done"
                /\ calls'[c].ret = None
                /\ calls'[c].worker = None
                /\ tasks' = tasks
                /\ completed_tasks' = completed_tasks
                /\ failed_tasks' = failed_tasks]_vars

\* C6 witness: with workers registered and a task already recorded, a call
\* asking for a tag no worker has has returned None.
C6_Witness ==
    /\ Len(workers) > 0
    /\ Eligible("y") = {}
    /\ DOMAIN tasks # {}
    /\ \E c \in CallIds : calls[c].pc = "done" /\ calls[c].worker = None

\* C7 as stated: the selected worker has minimum load among the candidates and
\* is, among the candidates of that load, the one registered earliest.
C7_EarliestRegistered ==
    \A e \in ExpertiseArgs :
        /\ Eligible(e) = {} <=> select_worker(e) = None
        /\ Eligible(e) # {} =>
              LET r == PosOf(select_worker(e))
              IN  /\ r \in Eligible(e)
                  /\ \A i \in Eligible(e) :
                        /\ RatLeq(get_load(workers[r].w), get_load(workers[i].w))
                        /\ RatEq(get_load(workers[r].w), get_load(workers[i].w))
                              => workers[r].at <= workers[i].at

\* C7, amended: the selected worker has minimum load among the candidates and
\* is, among the candidates of that load, the first in the registry's iteration
\* order (the order in which the names were first registered); None is
\* returned exactly when there is no candidate.
C7_FirstInRegistryOrder ==
    \A e \in ExpertiseArgs :
        /\ Eligible(e) = {} <=> select_worker(e) = None
        /\ Eligible(e) # {} =>
              LET r == PosOf(select_worker(e))
              IN  /\ r \in Eligible(e)
                  /\ \A i \in Eligible(e) :
                        /\ RatLeq(get_load(workers[r].w), get_load(workers[i].w))
                        /\ RatEq(get_load(workers[r].w), get_load(workers[i].w))
                              => r <= i

\* C7 witness: two registered workers tie at a non-zero minimum load, the name
\* of the first was registered again after the second, and a delegation went
\* to the first.
C7_Witness ==
    /\ Len(workers) = 2
    /\ workers[1].at > workers[2].at
    /\ failed_tasks[workers[1].w] > 0
    /\ RatEq(get_load(workers[1].w), get_load(workers[2].w))
    /\ select_worker(None) = workers[1].w
    /\ \E c \in FoundCalls : calls[c].worker = workers[1].w /\ calls[c].pc = "waiting"

\* C8: every call that found a worker recorded one task of its own under an
\* id no other task has; no recorded task is removed or replaced, so the
\* registry holds as many tasks as there were such calls.
C8_TaskRegistry ==
    /\ Cardinality(DOMAIN tasks) = Cardinality(FoundCalls)
    /\ \A c \in FoundCalls :
          /\ calls[c].task \in DOMAIN tasks
          /\ tasks[calls[c].task].owner = c
          /\ tasks[calls[c].task].task_id = calls[c].task
    /\ \A c, d \in FoundCalls : c # d => calls[c].task # calls[d].task

\* C8 witness: a second delegation recorded its task while the first was
\* suspended, and both are in the registry.
C8_Witness ==
    /\ Cardinality(DOMAIN tasks) >= 2
    /\ \E c, d \in FoundCalls :
          /\ c # d
          /\ calls[c].pc \in {"waiting", "sleeping"}
          /\ calls[d].pc \in {"waiting", "sleeping"}
          /\ CountEv(c, "timeout") >= 1

(***************************************************************************)
(* Swarm and Debate: properties                                            *)
(***************************************************************************)
\* C9: after any sequence of deposit_pheromone, evaporate_pheromones and
\* run_iteration calls with decay_rate in [0,1], every pheromone value stored
\* in the environment map lies in [0,1].
C9_PheromoneInUnit ==
    \A i \in 1..Len(environment_pheromones) :
        InUnit(environment_pheromones[i].value)

\* C10: every proposer and critic confidence, every per-round consensus score
\* and the avg_consensus_score run_debate produces lie in [0,1].
C10_DebateScoresInUnit ==
    /\ \A i \in 1..Len(rounds) :
          /\ InUnit(rounds[i].proposer_confidence)
          /\ InUnit(rounds[i].critic_confidence)
          /\ InUnit(rounds[i].consensus_score)
    /\ DebateReturned => InUnit(debate.result.avg_consensus_score)

\* The sum of the scores of the per-round entries of a result, from entry i on.
RECURSIVE SumEntries(_, _)
SumEntries(entries, i) ==
    IF i > Len(entries) THEN <<0, 1>>
    ELSE RatAdd(entries[i].consensus, SumEntries(entries, i + 1))

\* C11: run_debate reports total_rounds = R and exactly R per-round entries
\* numbered 1..R in that order, and avg_consensus_score is the arithmetic mean
\* of those entries' scores; this holds for a second call on the same
\* orchestrator too (the earlier call's rounds are not included).
C11_RoundsAndMean ==
    DebateReturned =>
        LET r == debate.result
        IN  /\ r.total_rounds = num_rounds
            /\ Len(r.rounds) = num_rounds
            /\ \A i \in 1..Len(r.rounds) : r.rounds[i].round = i
            /\ RatEq(RatMul(r.avg_consensus_score, <<num_rounds, 1>>),
                     SumEntries(r.rounds, 1))

\* C11 witness: a second run_debate call of at least three rounds has returned.
C11_Witness == DebateReturned /\ debate.ncalls = 2 /\ num_rounds >= 3

\* C12: the result run_debate returns has an entry named "consensus"
\* (alongside total_rounds and avg_consensus_score).
C12_ResultHasConsensus ==
    DebateReturned =>
        {"consensus", "total_rounds", "avg_consensus_score"} \subseteq DOMAIN debate.result

(***************************************************************************)
(* Consensus: properties                                                   *)
(***************************************************************************)
\* The vote log the last calculate_consensus call worked on (votes are only
\* ever appended).
LogAtCall == SubSeq(votes, 1, consensus.nvotes)

\* Some calculate_consensus call has been made on a non-empty log.
Calculated == consensus.outcome # "none" /\ consensus.nvotes > 0

OptionsIn(vs) == {vs[i].option : i \in 1..Len(vs)}

\* The summed confidence of the votes for option o, from vote i on.
RECURSIVE VoteSum(_, _, _)
VoteSum(vs, o, i) ==
    IF i > Len(vs) THEN <<0, 1>>
    ELSE RatAdd(IF vs[i].option = o THEN vs[i].confidence ELSE <<0, 1>>,
                VoteSum(vs, o, i + 1))

FirstVoteFor(vs, o) ==
    CHOOSE i \in 1..Len(vs) :
        vs[i].option = o /\ \A j \in 1..(i - 1) : vs[j].option # o

\* The option of highest summed confidence; of several, the one that appears
\* first in the log.
Winner(vs) ==
    CHOOSE o \in OptionsIn(vs) :
        \A q \in OptionsIn(vs) \ {o} :
            \/ RatLess(VoteSum(vs, q, 1), VoteSum(vs, o, 1))
            \/ /\ RatEq(VoteSum(vs, q, 1), VoteSum(vs, o, 1))
               /\ FirstVoteFor(vs, o) < FirstVoteFor(vs, q)

RECURSIVE TotalConfidence(_, _)
TotalConfidence(vs, i) ==
    IF i > Len(vs) THEN <<0, 1>>
    ELSE RatAdd(vs[i].confidence, TotalConfidence(vs, i + 1))

\* C13: under weighted_confidence, on a non-empty log, calculate_consensus
\* returns as the winner the option of highest summed clamped confidence (the
\* first-appearing one on a tie) and as confidence the winner's sum divided by
\* the total of all recorded confidences.
C13_WeightedWinner ==
    (strategy = "weighted_confidence" /\ Calculated) =>
        /\ consensus.outcome = "returned"
        /\ consensus.value.consensus = Winner(LogAtCall)
        /\ RatEq(RatMul(consensus.value.confidence, TotalConfidence(LogAtCall, 1)),
                 VoteSum(LogAtCall, Winner(LogAtCall), 1))

\* C14: calculate_consensus never raises, whatever the log, the strategy and
\* the confidences; on an empty log it reports no consensus and confidence 0.
C14_NeverFails ==
    /\ consensus.outcome # "raised"
    /\ (consensus.outcome = "returned" /\ consensus.nvotes = 0) =>
           /\ consensus.value.consensus = None
           /\ consensus.value.confidence = <<0, 1>>

AllSame(vs) == \A i \in 1..Len(vs) : vs[i].option = vs[1].option

\* C15: under unanimous, calculate_consensus reports unanimous = true and the
\* first vote's option as consensus exactly when every vote has that option, and
\* unanimous = false and no consensus otherwise; once a result is not unanimous,
\* every result after further add_vote calls is not unanimous either.
C15_Unanimous ==
    /\ []((strategy = "unanimous" /\ Calculated) =>
             /\ consensus.outcome = "returned"
             /\ consensus.value.unanimous = AllSame(LogAtCall)
             /\ consensus.value.consensus =
                    IF AllSame(LogAtCall) THEN LogAtCall[1].option ELSE None)
    /\ [][(/\ strategy = "unanimous" /\ Calculated
           /\ consensus.outcome = "returned" /\ consensus'.outcome = "returned"
           /\ ~consensus.value.unanimous)
          => ~consensus'.value.unanimous]_vars

\* C15 witness: a log whose second vote differs from the first got a third vote
\* for the first option, and the result is not unanimous.
C15_Witness ==
    /\ strategy = "unanimous" /\ consensus.outcome = "returned"
    /\ consensus.nvotes = 3
    /\ votes[2].option # votes[1].option /\ votes[3].option = votes[1].option
    /\ ~consensus.value.unanimous /\ consensus.value.consensus = None

(***************************************************************************)
(* Pipeline: properties                                                    *)
(***************************************************************************)
\* A step is an execute call (r is the record of that call).
IsExecute == run'.n # run.n

\* What the step appended to the execution history.
Added == SubSeq(execution_history', Len(execution_history) + 1, Len(execution_history'))

\* The stages of the call that are not skipped, by position.
NonSkipped(r) == {i \in 1..Len(stages) : StageName[stages[i]] \notin r.skip_stages}

\* The last non-skipped stage before stage i (0: there is none).
PrevStage(r, i) ==
    LET P == {j \in NonSkipped(r) : j < i}
    IN  IF P = {} THEN 0 ELSE CHOOSE j \in P : \A k \in P : k <= j

\* The data that reaches stage i when nothing before it aborts.
InputOf(r, i) ==
    IF PrevStage(r, i) = 0 THEN r.initial_data ELSE r.outs[PrevStage(r, i)].data

\* Stage i passes input validation, returns a dict and passes output validation.
StageOK(r, i) ==
    /\ InputRequired[stages[i]] \subseteq InputOf(r, i)
    /\ ~r.outs[i].none
    /\ OutputRequired[stages[i]] \subseteq r.outs[i].data

\* The stage at which the run aborts (0: it does not abort).
AbortAt(r) ==
    LET F == {i \in NonSkipped(r) : ~StageOK(r, i)}
    IN  IF F = {} THEN 0 ELSE CHOOSE i \in F : \A k \in F : i <= k

\* The stages that are reached and succeed.
Succeeded(r) == {i \in NonSkipped(r) : AbortAt(r) = 0 \/ i < AbortAt(r)}

\* The entries of the stages in S from stage i on, in registration order.
RECURSIVE EntriesFrom(_, _, _)
EntriesFrom(r, S, i) ==
    IF i > Len(stages) THEN << >>
    ELSE (IF i \in S
          THEN <<[stage |-> StageName[stages[i]], data |-> r.outs[i].data]>>
          ELSE << >>) \o EntriesFrom(r, S, i + 1)

\* The k-th of the stages in S.
Nth(S, k) == CHOOSE i \in S : Cardinality({j \in S : j <= i}) = k

\* C16: every execute call appends to the execution trace, in registration
\* order, one entry for exactly those stages that were not skipped, passed input
\* validation, returned a dict and passed output validation; add_stage appends
\* nothing; so the trace is, run by run, those stages.
C16_TraceOfSuccesses ==
    [][execution_history' =
           execution_history \o
               (IF IsExecute THEN EntriesFrom(run', Succeeded(run'), 1) ELSE << >>)]_vars

\* C16 witness: a second run over two stages skipped one of them and succeeded,
\* after a first run that recorded both.
C16_Witness ==
    /\ run.n = 2 /\ Len(stages) = 2 /\ run.skip_stages # {} /\ ~run.ret.none
    /\ Len(run.seen) = 1 /\ Len(execution_history) = 3

\* C17: an execute call that aborts at a stage returns None, appends no entry
\* for that stage or a later one, and leaves every entry recorded before, by
\* earlier stages of the run and by earlier runs, in place and unchanged.
C17_AbortKeepsTrace ==
    [][(IsExecute /\ AbortAt(run') # 0) =>
          LET before == {i \in NonSkipped(run') : i < AbortAt(run')}
          IN  /\ run'.ret = NoneData
              /\ Len(execution_history') = Len(execution_history) + Cardinality(before)
              /\ SubSeq(execution_history', 1, Len(execution_history)) = execution_history
              /\ \A k \in 1..Len(Added) :
                     Added[k] = [stage |-> StageName[stages[Nth(before, k)]],
                                 data |-> run'.outs[Nth(before, k)].data]]_vars

\* C17 witness: a second run aborted at its second stage after the first stage
\* had recorded an entry, on top of the two entries of the first run.
C17_Witness ==
    /\ run.n = 2 /\ Len(stages) = 2 /\ Len(run.outs) = 2
    /\ run.skip_stages = {} /\ AbortAt(run) = 2
    /\ run.ret.none /\ Len(execution_history) = 3

\* C18 as stated: execute on a pipeline without stages returns None.
C18_EmptyReturnsAbsent ==
    (run.n > 0 /\ stages = << >>) => run.ret = NoneData

\* C18: execute on a pipeline without stages returns the initial data
\* unchanged and records nothing.
C18_EmptyReturnsInput ==
    (run.n > 0 /\ stages = << >>) =>
        /\ run.ret = SomeData(run.initial_data)
        /\ execution_history = << >>

\* C18 witness: a pipeline without stages was executed on a dict with a field.
C18_Witness ==
    /\ run.n > 0 /\ stages = << >>
    /\ run.initial_data # {} /\ run.ret = SomeData(run.initial_data)

\* C19: in an execute call that does not abort, the stages invoked are the
\* non-skipped ones in registration order, each receives the output of the last
\* non-skipped stage before it (the initial data if there is none), and the call
\* returns the output of the last non-skipped stage (the initial data if there
\* is none).
C19_DataFlow ==
    [][(IsExecute /\ AbortAt(run') = 0) =>
          LET r == run'
              NS == NonSkipped(r)
          IN  /\ Len(r.seen) = Cardinality(NS)
              /\ \A k \in 1..Len(r.seen) :
                     /\ r.seen[k].stage = Nth(NS, k)
                     /\ r.seen[k].data = InputOf(r, Nth(NS, k))
              /\ r.ret = IF NS = {} THEN SomeData(r.initial_data)
                         ELSE SomeData(r.outs[PrevStage(r, Len(stages) + 1)].data)]_vars

\* C19 witness: of three stages the middle one was skipped, and the third
\* received what the first returned, which was not the initial data.
C19_Witness ==
    /\ run.n = 1 /\ Len(stages) = 3 /\ Len(run.outs) = 3 /\ ~run.ret.none
    /\ Len(run.seen) = 2 /\ run.seen[2].stage = 3
    /\ run.seen[2].data = run.outs[1].data /\ run.seen[2].data # run.initial_data

(***************************************************************************)
(* Swarm: the statistics of run_iteration                                  *)
(***************************************************************************)
\* C20: after every run_iteration of a swarm of at least one agent, the
\* statistics it returns have 1 <= unique_locations <= num_agents,
\* convergence_ratio = 1 - unique_locations / num_agents within [0, 1], and
\* timestep equal to the number of run_iteration calls made so far.
C20_IterationStats ==
    iterations > 0 =>
        /\ 1 <= stats.unique_locations /\ stats.unique_locations <= Len(agents)
        /\ RatEq(RatAdd(stats.convergence_ratio,
                        Norm(stats.unique_locations, Len(agents))), <<1, 1>>)
        /\ InUnit(stats.convergence_ratio)
        /\ stats.timestep = iterations
        /\ timestep = iterations

\* C20 witness: an iteration of a swarm of three agents left them on two
\* locations.
C20_Witness ==
    /\ iterations > 0 /\ Len(agents) = 3
    /\ stats.unique_locations = 2 /\ stats.convergence_ratio = <<1, 3>>

(***************************************************************************)
(* Swarm: deposits and iterations                                          *)
(***************************************************************************)
\* The value stored for a location of the pheromone dict.
ValueAt(env, loc) == env[CHOOSE i \in 1..Len(env) : env[i].location = loc].value

\* C21: a deposit_pheromone call with a positive amount at a location that
\* already has a value never decreases that value; it raises the value by the
\* amount or brings it to 1 (so finitely many deposits reach 1), and a value of
\* 1 stays at 1.
C21_DepositMonotone ==
    [][\A loc \in Locations, v \in DepositValues :
          (/\ RatLess(<<0, 1>>, v)
           /\ HasLoc(environment_pheromones, loc)
           /\ DepositPheromone(loc, v)) =>
              LET old == ValueAt(environment_pheromones, loc)
                  new == ValueAt(environment_pheromones', loc)
              IN  /\ RatLeq(old, new)
                  /\ new = <<1, 1>> \/ new = RatAdd(old, v)
                  /\ old = <<1, 1>> => new = <<1, 1>>]_vars

\* C23: in a freshly constructed swarm of N >= 2 agents driven by
\* run_iteration alone, after every iteration all agents are at one location,
\* unique_locations = 1 and convergence_ratio = 1 - 1/N, which is strictly
\* between 0 and 1.
C23_FreshSwarmRatio ==
    (iterations > 0 /\ Len(agents) >= 2) =>
        /\ \A i \in 1..Len(agents) : agents[i].position = agents[1].position
        /\ stats.unique_locations = 1
        /\ RatEq(RatAdd(stats.convergence_ratio, <<1, Len(agents)>>), <<1, 1>>)
        /\ RatLess(<<0, 1>>, stats.convergence_ratio)
        /\ RatLess(stats.convergence_ratio, <<1, 1>>)

\* C23 witness: a fresh swarm of three agents has run all its iterations.
C23_Witness ==
    /\ iterations = MaxSwarmOps /\ nops = iterations /\ Len(agents) = 3
    /\ stats.convergence_ratio = <<2, 3>>

\* The first-listed entry of maximum value of a pheromone dict.
FirstMax(env) ==
    CHOOSE j \in 1..Len(env) :
        /\ \A k \in 1..Len(env) : RatLeq(env[k].value, env[j].value)
        /\ \A k \in 1..(j - 1) : RatLess(env[k].value, env[j].value)

\* Where agent i goes in an iteration that starts with the dict env.
Target(env, i) ==
    IF env = << >> THEN agents[i].position ELSE env[FirstMax(env)].location

\* The number of agents that go to loc.
Arrivals(env, loc) == Cardinality({i \in 1..Len(agents) : Target(env, i) = loc})

\* c deposits of 0.1 on a value v, each capped at 1.
RECURSIVE AddCapped(_, _)
AddCapped(v, c) ==
    IF c = 0 THEN v ELSE AddCapped(RatMin(<<1, 1>>, RatAdd(v, <<1, 10>>)), c - 1)

\* The value of loc after the deposits of the agents that go there.
Deposited(env, loc) ==
    IF HasLoc(env, loc) THEN AddCapped(ValueAt(env, loc), Arrivals(env, loc))
    ELSE AddCapped(<<1, 10>>, Arrivals(env, loc) - 1)

AgeAt(env, loc) == env[CHOOSE i \in 1..Len(env) : env[i].location = loc].age

LocationsOf(env) == {env[i].location : i \in 1..Len(env)}

\* C24: in a run_iteration every agent senses the pheromone values as they
\* were before any agent moved and goes to the first-listed location of maximum
\* value among them, or stays where it is if there are none; afterwards every
\* entry holds its value after the agents' deposits multiplied once by
\* (1 - decay_rate), its age is one more, and no entry is gone.
C24_SnapshotAndEvaporation ==
    [][iterations' # iterations =>
          LET env == environment_pheromones
              after == environment_pheromones'
          IN  /\ \A i \in 1..Len(agents) :
                     /\ agents'[i].position = Target(env, i)
                     /\ agents'[i].local_pheromones =
                            [k \in 1..Len(env) |-> <<env[k].location, env[k].value>>]
              /\ LocationsOf(after) =
                     LocationsOf(env) \cup {Target(env, i) : i \in 1..Len(agents)}
              /\ Len(after) = Cardinality(LocationsOf(after))
              /\ \A loc \in LocationsOf(after) :
                     /\ ValueAt(after, loc) =
                            RatMul(Deposited(env, loc), RatSub(<<1, 1>>, decay_rate))
                     /\ AgeAt(after, loc) =
                            (IF HasLoc(env, loc) THEN AgeAt(env, loc) ELSE 0) + 1]_vars

\* C24 witness: an iteration that started with values at two locations has
\* taken an agent from one location to the other.
C24_Witness ==
    /\ iterations = 1 /\ Len(agents) >= 2
    /\ Len(agents[1].local_pheromones) = 2
    /\ agents[1].visited_locations = Locations
    /\ \A i \in 1..Len(agents) : agents[i].position = agents[1].position
    /\ \A k \in 1..Len(environment_pheromones) : environment_pheromones[k].age >= 1

(***************************************************************************)
(* The read-only calls                                                     *)
(***************************************************************************)
\* The supervisor state now, as get_status records it.
SupStateNow == SupState(workers, completed_tasks, failed_tasks, tasks)

\* C22: get_status and calculate_consensus change no engine state (workers and
\* their counters, tasks; strategy and vote log), and a call made in the state
\* in which the call before was made returns what that call returned.
C22_ReadOnly ==
    [][/\ status' # status =>
             /\ UNCHANGED <<workers, completed_tasks, failed_tasks, tasks>>
             /\ (status.called /\ status.state = SupStateNow)
                    => status'.value = status.value
       /\ GetStatus => UNCHANGED <<workers, completed_tasks, failed_tasks, tasks>>
       /\ (consensus'.outcome # consensus.outcome \/ consensus'.nvotes # consensus.nvotes)
             => UNCHANGED <<strategy, votes>>
       /\ (consensus.outcome # "none" /\ consensus.nvotes = Len(votes) /\ votes' = votes)
             => /\ consensus'.outcome = consensus.outcome
                /\ consensus'.nvotes = consensus.nvotes
                /\ consensus'.value = consensus.value]_vars

\* C22 witness: get_status was called with a finished task recorded, and the
\* state is still the one of that call.
C22_Witness ==
    /\ status.called /\ status.state = SupStateNow
    /\ status.value.total_tasks = 1
    /\ status.value.completed_tasks + status.value.failed_tasks = 1

(***************************************************************************)
(* Supervisor: the end of a delegation                                     *)
(***************************************************************************)
\* C25: once a delegate_task call that recorded a task is over, by returning
\* or by a worker's fault leaving it, that task's status is completed or
\* failed.
C25_TerminalStatus ==
    \A c \in CallIds :
        (calls[c].pc \in {"done", "raised"} /\ calls[c].task \in DOMAIN tasks) =>
            tasks[calls[c].task].status \in {"completed", "failed"}

=============================================================================
